---- MODULE Spec2Model ----
(***************************************************************************)
(* Reconciliation of the explanation store with meta.json.                 *)
(*                                                                         *)
(*   incremental sync   src/unnamed/part_000            (uuidv5 ids)       *)
(*   full sync          src/scripts/sync-explanations.ts (xxhash ids)      *)
(*   full ordered sync  src/scripts/insert-explanations.ts (uuidv5 ids)    *)
(*                                                                         *)
(* The store is the three tables the scripts write: nauka-ppla_explanation *)
(* (id -> explanation), nauka-ppla_question (externalId -> explanationId)  *)
(* and nauka-ppla_question_to_explanation (questionId, explanationId,      *)
(* order).  Every awaited sql statement is one step.                       *)
(***************************************************************************)
EXTENDS Integers, Sequences, FiniteSets, Bags, TLC

\* ------------------------------------------------------------- universe

Paths == {"a.md", "b.md"}
Questions == {"Q1", "Q2"}
\* File contents; the empty file is a content of its own ("" is falsy in JS).
Contents == {"", "x"}
NoFile == "ENOENT"
NULL == "NULL"

MaxQuestions == 2
MaxRevisions == 2
MaxAttempts == 2
\* The runs with rejected statements: shorter question lists, one rejection.
MaxQuestionsFail == 1
MaxFailures == 1
\* The longest list of files of one question (insert-explanations.ts).
MaxFiles == 2

\* ------------------------------------------------------------ manifests

\* The "questions" arrays: any, and those that name no question twice.
QuestionLists == UNION {[1..n -> Questions] : n \in 0..MaxQuestions}
DistinctLists ==
    {qs \in QuestionLists : \A i, j \in 1..Len(qs) : qs[i] = qs[j] => i = j}

\* meta.json as an array of entries; within one manifest paths are unique.
ManifestsOver(lists) ==
    LET Entries == [file : Paths, questions : lists]
    IN  {<<>>} \cup {<<e>> : e \in Entries}
        \cup UNION {{<<e1, e2>> : e2 \in {e \in Entries : e.file # e1.file}} : e1 \in Entries}

AllManifests == ManifestsOver(QuestionLists)
Manifests == ManifestsOver(DistinctLists)
\* The same with the shorter question lists.
SmallManifests ==
    ManifestsOver({qs \in DistinctLists : Len(qs) <= MaxQuestionsFail})
\* meta.json as insert-explanations.ts reads it: question -> ordered files, as
\* the entries of the object in the order of Object.keys.
FileLists == UNION {[1..n -> Paths] : n \in 0..MaxFiles}
OrderedManifests ==
    LET Entries == [question : Questions, files : FileLists]
    IN  {<<>>} \cup {<<e>> : e \in Entries}
        \cup UNION {{<<e1, e2>> : e2 \in {e \in Entries : e.question # e1.question}} :
                        e1 \in Entries}

\* The meta.json that metaSchema.parse(JSON.parse(content)) rejects: a text that
\* is no JSON, and an array with an entry that has no "questions".
MalformedMetas == {<<[text |-> "[{"]>>, <<[file |-> "a.md"]>>}

Disks == [Paths -> Contents \cup {NoFile}]
\* The working tree of the first commit: every file in place.
FirstDisks == {[f \in Paths |-> "x"]}

\* ------------------------------------------------------------- identity

\* uuidv5(filePath, uuidv5.URL): SHA-1 of the URL namespace and the path, with
\* the version nibble 5 and the RFC 4122 variant; the values for the paths of
\* the model.
uuidv5(filePath) ==
    CASE filePath = "a.md" -> "2a057ad1-7ed1-5961-8d7a-c12ff3a9f576"
      [] filePath = "b.md" -> "d20977d4-866e-5976-8677-89fd239f7705"

\* XXH.h64(filePath, 0).toString(16): the 64-bit xxhash with seed 0, in hex.
XXH_h64(filePath) ==
    CASE filePath = "a.md" -> <<"cc911539", "fb85", "bdfb">>
      [] filePath = "b.md" -> <<"1e87bde2", "3f98", "26e9">>

\* `${hash.slice(0, 8)}-${hash.slice(8, 12)}-${hash.slice(12, 16)}-0000-000000000000`
FormatUuidLike(hash) ==
    CASE hash = <<"cc911539", "fb85", "bdfb">> -> "cc911539-fb85-bdfb-0000-000000000000"
      [] hash = <<"1e87bde2", "3f98", "26e9">> -> "1e87bde2-3f98-26e9-0000-000000000000"

\* generateExplanationId of the incremental sync and of insert-explanations.ts.
generateExplanationId(filePath) == uuidv5(filePath)

\* generateExplanationId of sync-explanations.ts.
generateExplanationIdXX(filePath) == FormatUuidLike(XXH_h64(filePath))

Ids == {generateExplanationId(p) : p \in Paths} \cup {generateExplanationIdXX(p) : p \in Paths}

\* ---------------------------------------------------------------- store

\* db.explanation: id -> explanation text, for the rows that exist.
\* db.question: externalId -> explanationId (or NULL), for the questions that exist.
\* db.links: the rows of the join table, a bag of (questionId, explanationId, order).
EmptyDb(qs) ==
    [explanation |-> <<>>, question |-> [q \in qs |-> NULL], links |-> EmptyBag]

Without(f, k) == [x \in DOMAIN f \ {k} |-> f[x]]
With(f, k, v) == [x \in DOMAIN f \cup {k} |-> IF x = k THEN v ELSE f[x]]

\* INSERT ... ON CONFLICT (id) DO UPDATE SET explanation = EXCLUDED.explanation
UpsertExplanation(d, id, content) ==
    [d EXCEPT !.explanation = With(d.explanation, id, content)]

\* Faulty variant: the row of a removed entry is left in the table.
KeepExplanation(d, id) == d

\* DELETE FROM "nauka-ppla_explanation" WHERE id = ...
DeleteExplanation(d, id) ==
    [d EXCEPT !.explanation = Without(d.explanation, id)]

\* Faulty variant: the link written only to a question that has none.
LinkIfNull(d, qid, id) ==
    IF qid \in DOMAIN d.question /\ d.question[qid] = NULL
    THEN [d EXCEPT !.question[qid] = id]
    ELSE d

\* UPDATE question SET explanationId = id WHERE externalId = qid RETURNING id
SetQuestionLink(d, qid, id) ==
    IF qid \in DOMAIN d.question THEN [d EXCEPT !.question[qid] = id] ELSE d

\* Faulty variant: the unlink without its "explanationId" = id condition.
UnlinkWhateverItPointsAt(d, qid, id) ==
    IF qid \in DOMAIN d.question THEN [d EXCEPT !.question[qid] = NULL] ELSE d

\* UPDATE question SET explanationId = NULL WHERE externalId = qid AND explanationId = id
UnlinkIfMatches(d, qid, id) ==
    IF qid \in DOMAIN d.question /\ d.question[qid] = id
    THEN [d EXCEPT !.question[qid] = NULL]
    ELSE d

\* Faulty variant: the links of the question are not deleted before the new ones.
KeepLinksOf(d, questionId) == d

\* DELETE FROM "nauka-ppla_question_to_explanation" WHERE "questionId" = ...
DeleteLinksOf(d, questionId) ==
    [d EXCEPT !.links = [r \in {x \in DOMAIN d.links : x.questionId # questionId} |->
                            d.links[r]]]

\* INSERT INTO "nauka-ppla_question_to_explanation" (questionId, explanationId, order, id):
\* id is a fresh uuidv4, so the new row never collides with a stored one.
InsertLinkRow(d, questionId, explanationId, order) ==
    [d EXCEPT !.links =
        @ (+) SetToBag({[questionId |-> questionId, explanationId |-> explanationId,
                         order |-> order]})]

\* ----------------------------------------------------------------- diff

\* new Map(meta.map((e) => [e.file, e])): has and get
MapHas(meta, file) == \E i \in 1..Len(meta) : meta[i].file = file
MapGet(meta, file) ==
    meta[CHOOSE i \in 1..Len(meta) :
            meta[i].file = file /\ \A k \in (i + 1)..Len(meta) : meta[k].file # file]

\* The order of Array.prototype.sort() on the question identifiers (code units).
CodeUnitRank(q) == CASE q = "Q1" -> 1 [] q = "Q2" -> 2

RECURSIVE InsertSorted(_, _)
InsertSorted(sorted, q) ==
    IF sorted = <<>> THEN <<q>>
    ELSE IF CodeUnitRank(q) < CodeUnitRank(Head(sorted)) THEN <<q>> \o sorted
    ELSE <<Head(sorted)>> \o InsertSorted(Tail(sorted), q)

\* [...questions].sort()
RECURSIVE Sorted(_)
Sorted(questions) ==
    IF questions = <<>> THEN <<>>
    ELSE InsertSorted(Sorted(SubSeq(questions, 1, Len(questions) - 1)), questions[Len(questions)])

Elems(seq) == {seq[i] : i \in 1..Len(seq)}
FilesOf(meta) == {meta[i].file : i \in 1..Len(meta)}

removedOf(old, new) == SelectSeq(old, LAMBDA e : ~MapHas(new, e.file))
addedOf(old, new) == SelectSeq(new, LAMBDA e : ~MapHas(old, e.file))
keptOf(old, new) == SelectSeq(new, LAMBDA e : MapHas(old, e.file))

\* Faulty variant: the question lists compared as they are written, not sorted.
questionsModifiedUnsorted(old, new) ==
    SelectSeq(keptOf(old, new), LAMBDA e : MapGet(old, e.file).questions # e.questions)

\* JSON.stringify([...old.questions].sort()) !== JSON.stringify([...e.questions].sort())
questionsModifiedOf(old, new) ==
    SelectSeq(keptOf(old, new),
              LAMBDA e : Sorted(MapGet(old, e.file).questions) # Sorted(e.questions))

alreadyHandledOf(old, new) ==
    FilesOf(addedOf(old, new)) \cup FilesOf(questionsModifiedOf(old, new))

\* Faulty variant: every kept entry whose file changed, also when already handled.
contentOnlyAnyChanged(old, new, changed) ==
    SelectSeq(keptOf(old, new), LAMBDA e : e.file \in changed)

contentOnlyOf(old, new, changed) ==
    SelectSeq(keptOf(old, new),
              LAMBDA e : e.file \notin alreadyHandledOf(old, new) /\ e.file \in changed)

\* The classification of main(): removed, added, questionsModified, contentOnly
\* and toUpsert = [...added, ...questionsModified, ...contentOnly].
ComputeDiff(old, new, changed) ==
    [removed |-> removedOf(old, new),
     added |-> addedOf(old, new),
     kept |-> keptOf(old, new),
     questionsModified |-> questionsModifiedOf(old, new),
     contentOnly |-> contentOnlyOf(old, new, changed),
     toUpsert |-> addedOf(old, new) \o questionsModifiedOf(old, new)
                    \o contentOnlyOf(old, new, changed)]

NoDiff == ComputeDiff(<<>>, <<>>, {})

\* removed.length === 0 && toUpsert.length === 0 && questionsModified.length === 0
NothingToDo(df) ==
    Len(df.removed) = 0 /\ Len(df.toUpsert) = 0 /\ Len(df.questionsModified) = 0

\* ----------------------------------------------------------------- plan
\* The statements main() issues, in the order of its three loops.  A step is
\* one awaited statement, or the warning of the readFile catch.

Step(op, loop, group, file, qid) ==
    [op |-> op, loop |-> loop, group |-> group, file |-> file, qid |-> qid]

RECURSIVE Flatten(_)
Flatten(seqs) ==
    IF seqs = <<>> THEN <<>> ELSE Head(seqs) \o Flatten(Tail(seqs))

\* Faulty variant: the row of a removed entry deleted before its questions are
\* unlinked.
RemovedStepsDeleteFirst(entry) ==
    <<Step("delete", "removed", "removed", entry.file, "-")>>
    \o [k \in 1..Len(entry.questions) |->
            Step("unlink", "removed", "removed", entry.file, entry.questions[k])]

\* for (const entry of removed): unlink each question, then delete the row
RemovedSteps(entry) ==
    [k \in 1..Len(entry.questions) |->
        Step("unlink", "removed", "removed", entry.file, entry.questions[k])]
    \o <<Step("delete", "removed", "removed", entry.file, "-")>>

\* for (const entry of toUpsert): readFile, or warn and continue; upsert;
\* link each question
UpsertSteps(entry, group, files) ==
    IF files[entry.file] = NoFile
    THEN <<Step("warn", "upsert", group, entry.file, "-")>>
    ELSE <<Step("upsert", "upsert", group, entry.file, "-")>>
         \o [k \in 1..Len(entry.questions) |->
                Step("link", "upsert", group, entry.file, entry.questions[k])]

\* old.questions.filter((q) => !newQuestions.has(q))
removedQuestionsOf(oldEntry, entry) ==
    SelectSeq(oldEntry.questions,
              LAMBDA q : q \notin {entry.questions[k] : k \in 1..Len(entry.questions)})

\* for (const entry of questionsModified): unlink the questions dropped from it
ModifiedSteps(old, entry) ==
    LET removedQuestions == removedQuestionsOf(MapGet(old, entry.file), entry)
    IN  [k \in 1..Len(removedQuestions) |->
            Step("unlink", "modified", "questionsModified", entry.file, removedQuestions[k])]

PlanOf(old, df, files) ==
    Flatten([i \in 1..Len(df.removed) |-> RemovedSteps(df.removed[i])])
    \o Flatten([i \in 1..Len(df.added) |-> UpsertSteps(df.added[i], "added", files)])
    \o Flatten([i \in 1..Len(df.questionsModified) |-> UpsertSteps(df.questionsModified[i], "questionsModified", files)])
    \o Flatten([i \in 1..Len(df.contentOnly) |-> UpsertSteps(df.contentOnly[i], "contentOnly", files)])
    \o Flatten([i \in 1..Len(df.questionsModified) |-> ModifiedSteps(old, df.questionsModified[i])])

IsStoreOp(step) == step.op \in {"unlink", "delete", "upsert", "link"}

\* The effect of one statement of the incremental sync on the store.
ApplyStep(d, step, files) ==
    LET explanationId == generateExplanationId(step.file)
    IN  CASE step.op = "unlink" -> UnlinkIfMatches(d, step.qid, explanationId)
          [] step.op = "delete" -> DeleteExplanation(d, explanationId)
          [] step.op = "upsert" -> UpsertExplanation(d, explanationId, files[step.file])
          [] step.op = "link" -> SetQuestionLink(d, step.qid, explanationId)
          [] OTHER -> d

\* The store after the steps pl[from..to], with no statement failing.
RECURSIVE ApplyPlan(_, _, _, _)
ApplyPlan(d, pl, files, n) ==
    IF n = 0 THEN d ELSE ApplyStep(ApplyPlan(d, pl, files, n - 1), pl[n], files)

\* ---------------------------------------------------------------- state

VARIABLES
    repo,          \* the commits: <<[meta, files]>>, HEAD last
    db,            \* the store
    script,        \* the script that runs: "incremental", "sync" or "insert"
    status,        \* "idle", "start", "running", "nothing", "done" or "failed"
    oldMeta, newMeta, changedFiles,   \* main()'s inputs
    diff,          \* main()'s classification
    plan, pc,      \* the statements of the run and the next one
    stats,         \* main()'s counters
    summary,       \* the summary printed, if any
    attempt,       \* runs of the script on HEAD so far
    db0,           \* the store when the first run on HEAD began
    aborts,        \* per failed run on HEAD, the index of the rejected statement
    prevAborted,   \* whether the last run on HEAD~1 failed
    healed         \* the store had every run on an earlier commit completed

vars == <<repo, db, script, status, oldMeta, newMeta, changedFiles, diff, plan, pc,
          stats, summary, attempt, db0, aborts, prevAborted, healed>>

NoStats ==
    [deleted |-> 0, upserted |-> 0, questionsLinked |-> 0, questionsUnlinked |-> 0,
     questionsNotFound |-> <<>>]
NoSummary == <<>>

HEAD == repo[Len(repo)]

\* metaSchema.parse(JSON.parse(content)) throws
ParseThrows(content) == content \in MalformedMetas

\* git show HEAD~1:meta.json parsed, or [] when there is none and when the
\* parse throws (the catch is around both)
getOldMeta(commits) ==
    IF Len(commits) < 2 THEN <<>>
    ELSE IF ParseThrows(commits[Len(commits) - 1].meta) THEN <<>>
    ELSE commits[Len(commits) - 1].meta

\* git diff --name-only HEAD~1 HEAD -- explanations/, or the empty set when it fails
getChangedExplanationFiles(commits) ==
    IF Len(commits) < 2 THEN {}
    ELSE {f \in Paths : commits[Len(commits) - 1].files[f] # commits[Len(commits)].files[f]}

\* The questions of the store: all of them, or Q2 missing.
QuestionTables == {Questions, {"Q1"}}

Init ==
    /\ repo = <<>>
    /\ \E qs \in QuestionTables : db = EmptyDb(qs)
    /\ script = "incremental"
    /\ status = "idle"
    /\ oldMeta = <<>> /\ newMeta = <<>> /\ changedFiles = {}
    /\ diff = NoDiff
    /\ plan = <<>> /\ pc = 1
    /\ stats = NoStats
    /\ summary = NoSummary
    /\ attempt = 0
    /\ db0 = db
    /\ aborts = <<>>
    /\ prevAborted = FALSE
    /\ healed = db

\* ---------------------------------------------------------- environment

\* A commit is pushed: a new meta.json and working tree become HEAD, and the
\* workflow starts the incremental sync on it.
CanCommit ==
    /\ script = "incremental"
    /\ status \in {"idle", "nothing", "done", "failed"}
    /\ Len(repo) < MaxRevisions

Commit(meta, files) ==
    /\ CanCommit
    /\ repo' = Append(repo, [meta |-> meta, files |-> files])
    /\ status' = "start"
    /\ attempt' = 1
    /\ db0' = db
    /\ aborts' = <<>>
    /\ prevAborted' = (status = "failed")
    /\ UNCHANGED <<db, script, oldMeta, newMeta, changedFiles, diff, plan, pc, stats,
                   summary, healed>>

Push(manifests) ==
    /\ CanCommit
    /\ \E meta \in manifests, files \in (IF repo = <<>> THEN FirstDisks ELSE Disks) :
          Commit(meta, files)

\* The failed workflow run is started again on the same HEAD.
Rerun ==
    /\ script = "incremental"
    /\ status = "failed"
    /\ attempt < MaxAttempts
    /\ status' = "start"
    /\ attempt' = attempt + 1
    /\ UNCHANGED <<repo, db, script, oldMeta, newMeta, changedFiles, diff, plan, pc,
                   stats, summary, db0, aborts, prevAborted, healed>>

\* ------------------------------------------------------ incremental sync

\* main() up to the first statement: read both manifests and the changed
\* files, classify, and leave when there is nothing to do.
Main ==
    /\ script = "incremental"
    /\ status = "start"
    /\ ~ParseThrows(HEAD.meta)
    /\ LET new == HEAD.meta
           old == getOldMeta(repo)
           changed == getChangedExplanationFiles(repo)
           df == ComputeDiff(old, new, changed)
           pl == PlanOf(old, df, HEAD.files)
       IN  /\ newMeta' = new
           /\ oldMeta' = old
           /\ changedFiles' = changed
           /\ diff' = df
           /\ plan' = IF NothingToDo(df) THEN <<>> ELSE pl
           /\ status' = IF NothingToDo(df) THEN "nothing" ELSE "running"
           /\ healed' = IF attempt = 1 THEN ApplyPlan(healed, pl, HEAD.files, Len(pl))
                                       ELSE healed
    /\ pc' = 1
    /\ stats' = NoStats
    /\ summary' = NoSummary
    /\ UNCHANGED <<repo, db, script, attempt, db0, aborts, prevAborted>>

\* metaSchema.parse of the current meta.json throws: main() rejects before it
\* has a statement to issue, and main().catch exits 1.
MetaParseFail ==
    /\ script = "incremental"
    /\ status = "start"
    /\ ParseThrows(HEAD.meta)
    /\ status' = "failed"
    /\ plan' = <<>>
    /\ pc' = 1
    /\ stats' = NoStats
    /\ summary' = NoSummary
    /\ UNCHANGED <<repo, db, script, oldMeta, newMeta, changedFiles, diff, attempt, db0,
                   aborts, prevAborted, healed>>

At(op, loop) ==
    /\ status = "running"
    /\ pc <= Len(plan)
    /\ plan[pc].op = op
    /\ plan[pc].loop = loop

Frame == UNCHANGED <<repo, script, status, oldMeta, newMeta, changedFiles, diff, plan,
                     summary, attempt, db0, aborts, prevAborted, healed>>

\* Faulty variant: the questions of a removed entry are counted and not unlinked.
UnlinkRemovedSkipped ==
    /\ At("unlink", "removed")
    /\ stats' = [stats EXCEPT !.questionsUnlinked = @ + 1]
    /\ pc' = pc + 1
    /\ UNCHANGED db
    /\ Frame

\* Removed entries: UPDATE ... SET "explanationId" = NULL WHERE ... AND "explanationId" = id
UnlinkRemoved ==
    /\ At("unlink", "removed")
    /\ db' = UnlinkIfMatches(db, plan[pc].qid, generateExplanationId(plan[pc].file))
    /\ stats' = [stats EXCEPT !.questionsUnlinked = @ + 1]
    /\ pc' = pc + 1
    /\ Frame

\* Removed entries: DELETE FROM "nauka-ppla_explanation"
DeleteRemoved ==
    /\ At("delete", "removed")
    /\ db' = DeleteExplanation(db, generateExplanationId(plan[pc].file))
    /\ stats' = [stats EXCEPT !.deleted = @ + 1]
    /\ pc' = pc + 1
    /\ Frame

\* readFile throws: warn and continue with the next entry
WarnFileNotFound ==
    /\ At("warn", "upsert")
    /\ pc' = pc + 1
    /\ UNCHANGED <<db, stats>>
    /\ Frame

\* INSERT ... ON CONFLICT (id) DO UPDATE
Upsert ==
    /\ At("upsert", "upsert")
    /\ db' = UpsertExplanation(db, generateExplanationId(plan[pc].file),
                               HEAD.files[plan[pc].file])
    /\ stats' = [stats EXCEPT !.upserted = @ + 1]
    /\ pc' = pc + 1
    /\ Frame

\* UPDATE ... SET "explanationId" = id WHERE "externalId" = qid RETURNING id
Link ==
    /\ At("link", "upsert")
    /\ db' = SetQuestionLink(db, plan[pc].qid, generateExplanationId(plan[pc].file))
    /\ stats' = IF plan[pc].qid \in DOMAIN db.question
                THEN [stats EXCEPT !.questionsLinked = @ + 1]
                ELSE [stats EXCEPT !.questionsNotFound = Append(@, plan[pc].qid)]
    /\ pc' = pc + 1
    /\ Frame

\* Modified entries: unlink the questions that were removed from the entry
UnlinkModified ==
    /\ At("unlink", "modified")
    /\ db' = UnlinkIfMatches(db, plan[pc].qid, generateExplanationId(plan[pc].file))
    /\ stats' = [stats EXCEPT !.questionsUnlinked = @ + 1]
    /\ pc' = pc + 1
    /\ Frame

\* The summary, after the last statement.
Summary ==
    /\ script = "incremental"
    /\ status = "running"
    /\ pc > Len(plan)
    /\ status' = "done"
    /\ summary' = <<stats>>
    /\ UNCHANGED <<repo, db, script, oldMeta, newMeta, changedFiles, diff, plan, pc,
                   stats, attempt, db0, aborts, prevAborted, healed>>

\* Faulty variant: the rejection is caught around the statement, and the loop goes on.
StoreFailSwallowed ==
    /\ script = "incremental"
    /\ status = "running"
    /\ pc <= Len(plan)
    /\ IsStoreOp(plan[pc])
    /\ Len(aborts) < MaxFailures
    /\ aborts' = Append(aborts, pc)
    /\ pc' = pc + 1
    /\ UNCHANGED <<repo, db, script, status, oldMeta, newMeta, changedFiles, diff, plan,
                   stats, summary, attempt, db0, prevAborted, healed>>

\* An awaited statement rejects: main().catch prints the error and exits 1.
StoreFail ==
    /\ script = "incremental"
    /\ status = "running"
    /\ pc <= Len(plan)
    /\ IsStoreOp(plan[pc])
    /\ Len(aborts) < MaxFailures
    /\ status' = "failed"
    /\ aborts' = Append(aborts, pc)
    /\ UNCHANGED <<repo, db, script, oldMeta, newMeta, changedFiles, diff, plan, pc,
                   stats, summary, attempt, db0, prevAborted, healed>>

\* ------------------------------------------- full sync (sync-explanations)

\* explanationFiles.get(entry.file) and the test !content of both full syncs:
\* a file that is missing, and a file that is empty.
NotFound(files, file) == files[file] = NoFile \/ files[file] = ""

\* for (const entry of meta): warn and continue, or upsert and link each question
SyncSteps(entry, files) ==
    IF NotFound(files, entry.file)
    THEN <<Step("warn", "sync", "full", entry.file, "-")>>
    ELSE <<Step("upsert", "sync", "full", entry.file, "-")>>
         \o [k \in 1..Len(entry.questions) |->
                Step("link", "sync", "full", entry.file, entry.questions[k])]

\* Faulty variant: the entries of meta.json processed from the last to the first.
SyncPlanReversed(meta, files) ==
    Flatten([i \in 1..Len(meta) |-> SyncSteps(meta[Len(meta) + 1 - i], files)])

SyncPlanOf(meta, files) == Flatten([i \in 1..Len(meta) |-> SyncSteps(meta[i], files)])

\* main() up to the loop: read meta.json and the explanation files
SyncMain ==
    /\ script = "sync"
    /\ status = "start"
    /\ newMeta' = HEAD.meta
    /\ plan' = SyncPlanOf(HEAD.meta, HEAD.files)
    /\ pc' = 1
    /\ stats' = NoStats
    /\ summary' = NoSummary
    /\ status' = "running"
    /\ UNCHANGED <<repo, db, script, oldMeta, changedFiles, diff, attempt, db0, aborts,
                   prevAborted, healed>>

\* if (!content): warn and continue
SyncWarn ==
    /\ At("warn", "sync")
    /\ pc' = pc + 1
    /\ UNCHANGED <<db, stats>>
    /\ Frame

\* INSERT ... ON CONFLICT (id) DO UPDATE; explanationsUpserted++
SyncUpsert ==
    /\ At("upsert", "sync")
    /\ db' = UpsertExplanation(db, generateExplanationIdXX(plan[pc].file),
                               HEAD.files[plan[pc].file])
    /\ stats' = [stats EXCEPT !.upserted = @ + 1]
    /\ pc' = pc + 1
    /\ Frame

\* UPDATE ... SET "explanationId" = id WHERE "externalId" = qid RETURNING id;
\* questionsUpdated++ or questionsNotFound.push
SyncLink ==
    /\ At("link", "sync")
    /\ db' = SetQuestionLink(db, plan[pc].qid, generateExplanationIdXX(plan[pc].file))
    /\ stats' = IF plan[pc].qid \in DOMAIN db.question
                THEN [stats EXCEPT !.questionsLinked = @ + 1]
                ELSE [stats EXCEPT !.questionsNotFound = Append(@, plan[pc].qid)]
    /\ pc' = pc + 1
    /\ Frame

\* The summary of either full sync.
FullSummary ==
    /\ script \in {"sync", "insert"}
    /\ status = "running"
    /\ pc > Len(plan)
    /\ status' = "done"
    /\ summary' = <<stats>>
    /\ UNCHANGED <<repo, db, script, oldMeta, newMeta, changedFiles, diff, plan, pc,
                   stats, attempt, db0, aborts, prevAborted, healed>>

\* --------------------------------- full ordered sync (insert-explanations)

OrderedStep(op, file, qid, order) ==
    [op |-> op, loop |-> "insert", group |-> "full", file |-> file, qid |-> qid,
     order |-> order]

\* [...new Set(seq)]: the first occurrence of each element, in order
RECURSIVE Unique(_)
Unique(seq) ==
    IF seq = <<>> THEN <<>>
    ELSE LET init == Unique(SubSeq(seq, 1, Len(seq) - 1))
             last == seq[Len(seq)]
         IN  IF last \in Elems(init) THEN init ELSE Append(init, last)

\* [...new Set(questionIds.flatMap((q) => meta[q]))]
uniqueFilesOf(meta) == Unique(Flatten([i \in 1..Len(meta) |-> meta[i].files]))

\* 1) for (const file of uniqueFiles): warn and continue, or upsert
InsertUpsertSteps(meta, files) ==
    LET uniqueFiles == uniqueFilesOf(meta)
    IN  [k \in 1..Len(uniqueFiles) |->
            IF NotFound(files, uniqueFiles[k])
            THEN OrderedStep("warn", uniqueFiles[k], "-", 0)
            ELSE OrderedStep("upsert", uniqueFiles[k], "-", 0)]

\* 2) for (const questionExternalId of questionIds): nothing for an empty list;
\* select the question; when found delete its links and insert one per file
\* that is found, with the index of the file as order
InsertLinkSteps(entry, files, questionTable) ==
    IF Len(entry.files) = 0 THEN <<>>
    ELSE IF entry.question \notin questionTable
    THEN <<OrderedStep("select", "-", entry.question, 0)>>
    ELSE <<OrderedStep("select", "-", entry.question, 0),
           OrderedStep("deleteLinks", "-", entry.question, 0)>>
         \o [k \in 1..Len(entry.files) |->
                IF NotFound(files, entry.files[k])
                THEN OrderedStep("warnLink", entry.files[k], entry.question, k - 1)
                ELSE OrderedStep("insertLink", entry.files[k], entry.question, k - 1)]

InsertPlanOf(meta, files, questionTable) ==
    InsertUpsertSteps(meta, files)
    \o Flatten([i \in 1..Len(meta) |-> InsertLinkSteps(meta[i], files, questionTable)])

\* main() up to the first loop: read meta.json and the explanation files
InsertMain ==
    /\ script = "insert"
    /\ status = "start"
    /\ newMeta' = HEAD.meta
    /\ plan' = InsertPlanOf(HEAD.meta, HEAD.files, DOMAIN db.question)
    /\ pc' = 1
    /\ stats' = NoStats
    /\ summary' = NoSummary
    /\ status' = "running"
    /\ UNCHANGED <<repo, db, script, oldMeta, changedFiles, diff, attempt, db0, aborts,
                   prevAborted, healed>>

\* if (!content): warn and continue (the upsert of a file, the link of a file)
InsertWarn ==
    /\ At("warn", "insert") \/ At("warnLink", "insert")
    /\ pc' = pc + 1
    /\ UNCHANGED <<db, stats>>
    /\ Frame

\* INSERT ... ON CONFLICT (id) DO UPDATE; explanationsUpserted++
InsertUpsert ==
    /\ At("upsert", "insert")
    /\ db' = UpsertExplanation(db, generateExplanationId(plan[pc].file),
                               HEAD.files[plan[pc].file])
    /\ stats' = [stats EXCEPT !.upserted = @ + 1]
    /\ pc' = pc + 1
    /\ Frame

\* SELECT id FROM "nauka-ppla_question"; questionsNotFound.push when there is none
InsertSelect ==
    /\ At("select", "insert")
    /\ stats' = IF plan[pc].qid \in DOMAIN db.question
                THEN stats
                ELSE [stats EXCEPT !.questionsNotFound = Append(@, plan[pc].qid)]
    /\ pc' = pc + 1
    /\ UNCHANGED db
    /\ Frame

\* DELETE FROM "nauka-ppla_question_to_explanation" WHERE "questionId" = ...
InsertDeleteLinks ==
    /\ At("deleteLinks", "insert")
    /\ db' = DeleteLinksOf(db, plan[pc].qid)
    /\ pc' = pc + 1
    /\ UNCHANGED stats
    /\ Frame

\* INSERT INTO "nauka-ppla_question_to_explanation"; linksInserted++
InsertLink ==
    /\ At("insertLink", "insert")
    /\ db' = InsertLinkRow(db, plan[pc].qid, generateExplanationId(plan[pc].file),
                           plan[pc].order)
    /\ stats' = [stats EXCEPT !.questionsLinked = @ + 1]
    /\ pc' = pc + 1
    /\ Frame

Insert ==
    \/ InsertMain
    \/ InsertWarn
    \/ InsertUpsert
    \/ InsertSelect
    \/ InsertDeleteLinks
    \/ InsertLink

Sync ==
    \/ SyncMain
    \/ SyncWarn
    \/ SyncUpsert
    \/ SyncLink

Incremental ==
    \/ Main
    \/ UnlinkRemoved
    \/ DeleteRemoved
    \/ WarnFileNotFound
    \/ Upsert
    \/ Link
    \/ UnlinkModified
    \/ Summary

\* The history of commits, each synced by a run in which no statement rejects.
Next ==
    \/ Push(Manifests)
    \/ Incremental

Spec == Init /\ [][Next]_vars

\* The same with statements that reject, and failed runs started again.
NextFail ==
    \/ Push(SmallManifests)
    \/ Incremental
    \/ StoreFail
    \/ Rerun

SpecFail == Init /\ [][NextFail]_vars

\* The history in which a commit may hold a meta.json that does not parse.
NextGate ==
    \/ Push(SmallManifests \cup MalformedMetas)
    \/ MetaParseFail
    \/ Incremental

SpecGate == Init /\ [][NextGate]_vars

\* ------------------------------------------------ the classification alone

\* Any two manifests and any set of changed files, as HEAD~1 and HEAD.
InitDiff ==
    /\ \E old \in AllManifests, new \in AllManifests, changed \in SUBSET Paths :
          repo = <<[meta |-> old, files |-> [f \in Paths |-> "x"]],
                   [meta |-> new, files |-> [f \in Paths |-> IF f \in changed THEN "" ELSE "x"]]>>
    /\ db = EmptyDb(Questions)
    /\ script = "incremental"
    /\ status = "start"
    /\ oldMeta = <<>> /\ newMeta = <<>> /\ changedFiles = {}
    /\ diff = NoDiff
    /\ plan = <<>> /\ pc = 1
    /\ stats = NoStats
    /\ summary = NoSummary
    /\ attempt = 1
    /\ db0 = db
    /\ aborts = <<>>
    /\ prevAborted = FALSE
    /\ healed = db

SpecDiff == InitDiff /\ [][Main]_vars

\* ------------------------------------------------------ full syncs, twice

IdsOf(sc) ==
    IF sc = "sync" THEN {generateExplanationIdXX(f) : f \in Paths}
                   ELSE {generateExplanationId(f) : f \in Paths}

\* The stores a full sync may find: any of its explanation rows, with a text of
\* an earlier sync; any links of the questions (sync-explanations), or rows of
\* the join table left by an earlier sync, some of them twice (insert-explanations).
StaleLinks ==
    LET row(q, f, o) == [questionId |-> q, explanationId |-> generateExplanationId(f),
                         order |-> o]
    IN  {EmptyBag,
         SetToBag({row("Q1", "b.md", 0)}),
         SetToBag({row("Q1", "a.md", 0), row("Q2", "a.md", 1)})
            (+) SetToBag({row("Q1", "a.md", 0)})}

StoresOf(sc) ==
    {[explanation |-> [i \in rows |-> "old"], question |-> question, links |-> links] :
        rows \in SUBSET IdsOf(sc),
        question \in UNION {[qs -> IF sc = "sync" THEN IdsOf(sc) \cup {NULL} ELSE {NULL}] :
                                qs \in QuestionTables},
        links \in IF sc = "sync" THEN {EmptyBag} ELSE StaleLinks}

InitFull ==
    /\ \E sc \in {"sync", "insert"} :
          /\ script = sc
          /\ \E meta \in (IF sc = "sync" THEN Manifests ELSE OrderedManifests),
                files \in Disks :
                repo = <<[meta |-> meta, files |-> files]>>
          /\ db \in StoresOf(sc)
    /\ status = "start"
    /\ oldMeta = <<>> /\ newMeta = <<>> /\ changedFiles = {}
    /\ diff = NoDiff
    /\ plan = <<>> /\ pc = 1
    /\ stats = NoStats
    /\ summary = NoSummary
    /\ attempt = 1
    /\ db0 = db
    /\ aborts = <<>>
    /\ prevAborted = FALSE
    /\ healed = db

\* The full sync is run once more on the same meta.json and files.
RunAgain ==
    /\ script \in {"sync", "insert"}
    /\ status = "done"
    /\ attempt < MaxAttempts
    /\ status' = "start"
    /\ attempt' = attempt + 1
    /\ db0' = db
    /\ UNCHANGED <<repo, db, script, oldMeta, newMeta, changedFiles, diff, plan, pc,
                   stats, summary, aborts, prevAborted, healed>>

NextFull ==
    \/ Sync
    \/ Insert
    \/ FullSummary
    \/ RunAgain

SpecFull == InitFull /\ [][NextFull]_vars

\* ------------------------------------- incremental history against full sync

\* After the incremental runs of a history, the full sync of the last meta.json
\* on the store the history began with; db0 keeps what the history reached.
StartFullRebuild ==
    /\ script = "incremental"
    /\ status \in {"nothing", "done"}
    /\ script' = "sync"
    /\ status' = "start"
    /\ attempt' = 1
    /\ db0' = db
    /\ db' = EmptyDb(DOMAIN db.question)
    /\ UNCHANGED <<repo, oldMeta, newMeta, changedFiles, diff, plan, pc, stats, summary,
                   aborts, prevAborted, healed>>

NextEquiv ==
    \/ Push(SmallManifests)
    \/ Incremental
    \/ StartFullRebuild
    \/ Sync
    \/ FullSummary

SpecEquiv == Init /\ [][NextEquiv]_vars

\* ----------------------------------------------------------- properties

\* The statement the run has just issued, when there is one.
Issued == status \in {"running", "done"} /\ pc > 1
Last == plan[pc - 1]

\* C2. Scoped unlink: an unlink of the incremental sync (of a removed entry, or
\* of a question dropped from a modified entry) changes no explanation row and
\* changes a question's link only from the entry's derived id to NULL; a link
\* that points at any other explanation is left as it is.
ScopedUnlink ==
    [][((At("unlink", "removed") \/ At("unlink", "modified")) /\ pc' = pc + 1) =>
          /\ db'.explanation = db.explanation
          /\ \A q \in DOMAIN db.question :
                db'.question[q] # db.question[q] =>
                    /\ q = plan[pc].qid
                    /\ db.question[q] = generateExplanationId(plan[pc].file)
                    /\ db'.question[q] = NULL]_vars

\* An unlink was issued for a question that a later entry had repointed, and
\* the link still points at that other explanation.
ScopedUnlinkWitness ==
    /\ Issued
    /\ Last.op = "unlink"
    /\ Last.qid \in DOMAIN db.question
    /\ db.question[Last.qid] \notin {NULL, generateExplanationId(Last.file)}

\* C5. Content-only change: every statement issued for a contentOnly entry is
\* the upsert of its explanation row (or the warning), and no question's link
\* is written or cleared by it.
ContentOnlyNoLinkOps ==
    [][(status = "running" /\ pc <= Len(plan) /\ plan[pc].group = "contentOnly"
            /\ pc' = pc + 1) =>
          /\ plan[pc].op \in {"upsert", "warn"}
          /\ db'.question = db.question]_vars

\* C6. Missing content file: a completed run has issued the link statement of
\* every question of every added, modified or content-only entry, also of the
\* entries whose file could not be read.
MissingFileKeepsLinks ==
    status = "done" =>
        \A i \in 1..Len(diff.toUpsert) :
            LET entry == diff.toUpsert[i]
            IN  HEAD.files[entry.file] = NoFile =>
                    \A k \in 1..Len(entry.questions) :
                        \E n \in 1..Len(plan) :
                            /\ plan[n].op = "link"
                            /\ plan[n].file = entry.file
                            /\ plan[n].qid = entry.questions[k]

\* C7. Unresolved question: the report of a completed run lists every question
\* identifier of a link or unlink statement that is not in the store.
UnresolvedRecorded ==
    status = "done" =>
        \A n \in 1..Len(plan) :
            (plan[n].op \in {"link", "unlink"} /\ plan[n].qid \notin DOMAIN db.question)
                => plan[n].qid \in Elems(summary[1].questionsNotFound)

\* A statement of the current run has rejected.
Rejected == attempt > 0 /\ Len(aborts) >= attempt /\ status # "start"

\* C8. Store operation failure: when a statement rejects, the run ends failed
\* at that statement with the store as the statements before it left it and no
\* summary; from then on the run issues no statement, changes nothing in the
\* store and prints no summary.
StoreFailureAborts ==
    /\ [](Rejected => /\ status = "failed"
                      /\ pc = aborts[attempt]
                      /\ summary = NoSummary)
    /\ [][Len(aborts') > Len(aborts) => (db' = db /\ pc' = pc /\ stats' = stats)]_vars
    /\ [][Rejected => (UNCHANGED <<db, pc, stats, summary>> \/ status' = "start")]_vars

\* A run failed after it had changed the store.
StoreFailureWitness ==
    /\ status = "failed"
    /\ attempt = 1
    /\ pc > 1
    /\ db # db0
    /\ db = ApplyPlan(db0, plan, HEAD.files, pc - 1)

\* C9. Convergence on re-run: a run that completes after an earlier run of the
\* same diff was aborted leaves the store as one uninterrupted run of the diff
\* from the original store leaves it.
RerunConverges ==
    (status = "done" /\ attempt > 1) =>
        db = ApplyPlan(db0, plan, HEAD.files, Len(plan))

\* The aborted run had issued statements, and the re-run completed.
RerunWitness ==
    /\ status = "done"
    /\ attempt > 1
    /\ aborts[1] > 1
    /\ ApplyPlan(db0, plan, HEAD.files, aborts[1] - 1) # db0
    /\ db # db0

\* C10. Self-healing: after an aborted run on the previous commit, a complete
\* run on the next commit leaves the store as it would be had the aborted run
\* completed before it.
SelfHeals ==
    (status \in {"done", "nothing"} /\ prevAborted) => db = healed

\* C1. Incremental/full equivalence: the store the incremental runs of a history
\* reach from a store with no explanation rows and no links is the store one
\* full sync of the last meta.json reaches from that store: the same
\* explanation rows, ids and texts, and the same link of every question.
IncrementalEqualsFull ==
    (script = "sync" /\ status = "done") =>
        /\ db.explanation = db0.explanation
        /\ db.question = db0.question

Classified == script = "incremental" /\ status \in {"running", "nothing"}

\* C3. Partition completeness: removed, added, questionsModified, contentOnly
\* and unchanged (the kept entries in neither of the two) are pairwise disjoint,
\* hold no file twice, and together are the files of the old and the new
\* manifest; an added entry whose file changed is in added alone.
PartitionComplete ==
    Classified =>
        LET R == FilesOf(diff.removed)
            A == FilesOf(diff.added)
            L == FilesOf(diff.questionsModified)
            C == FilesOf(diff.contentOnly)
            U == FilesOf(diff.kept) \ (L \cup C)
            classes == <<R, A, L, C, U>>
        IN  /\ \A i, j \in 1..5 : i # j => classes[i] \cap classes[j] = {}
            /\ R \cup A \cup L \cup C \cup U = FilesOf(oldMeta) \cup FilesOf(newMeta)
            /\ L \cup C \subseteq FilesOf(diff.kept)
            /\ Len(diff.removed) = Cardinality(R)
            /\ Len(diff.added) = Cardinality(A)
            /\ Len(diff.questionsModified) = Cardinality(L)
            /\ Len(diff.contentOnly) = Cardinality(C)
            /\ Len(diff.toUpsert) = Cardinality(A \cup L \cup C)

\* An added entry and a modified entry, the files of both changed.
PartitionWitness ==
    /\ Classified
    /\ FilesOf(diff.added) \cap changedFiles # {}
    /\ FilesOf(diff.questionsModified) \cap changedFiles # {}

\* C4. Idempotence of full resync: a second run of a full sync on the same
\* meta.json and files leaves the store as the first run left it: the same
\* explanation rows, the same link of every question, and the same rows of the
\* join table, each as many times as before and the rows of a replaced question
\* once.
FullResyncIdempotent ==
    (script \in {"sync", "insert"} /\ status = "done" /\ attempt > 1) =>
        /\ db = db0
        /\ script = "insert" =>
              \A i \in 1..Len(newMeta) :
                  (newMeta[i].question \in DOMAIN db.question /\ newMeta[i].files # <<>>) =>
                      \A r \in DOMAIN db.links :
                          r.questionId = newMeta[i].question => db.links[r] = 1

\* The ordered sync has run twice and has replaced the links of a question by
\* two rows.
FullResyncWitness ==
    /\ script = "insert"
    /\ status = "done"
    /\ attempt > 1
    /\ stats.questionsLinked >= 2
    /\ stats.upserted >= 1
    /\ db.links # EmptyBag

\* The run has read a meta.json that does not parse: that of HEAD, or that of
\* HEAD~1.
SawMalformed ==
    /\ script = "incremental"
    /\ status \in {"running", "nothing", "done", "failed"}
    /\ \/ ParseThrows(HEAD.meta)
       \/ Len(repo) >= 2 /\ ParseThrows(repo[Len(repo) - 1].meta)

\* C11. Manifest validation is a gate: a run that has read a malformed current
\* or previous meta.json issues no statement (no upsert, delete, link or
\* unlink) and leaves the store as it found it.
MalformedManifestAborts ==
    SawMalformed => (pc = 1 /\ db = db0)

\* C12. Ordered links: after a completed ordered sync, the rows of the join
\* table of every question of meta.json that is in the store are exactly one
\* row per file of its list, in the order of the list, with the orders 0..n-1
\* and no explanation twice; a question with an empty list has no rows.
OrderedLinksMatch ==
    (script = "insert" /\ status = "done") =>
        \A i \in 1..Len(newMeta) :
            LET entry == newMeta[i]
                rows == {r \in DOMAIN db.links : r.questionId = entry.question}
            IN  entry.question \in DOMAIN db.question =>
                    /\ rows = {[questionId |-> entry.question,
                                explanationId |-> generateExplanationId(entry.files[k]),
                                order |-> k - 1] : k \in 1..Len(entry.files)}
                    /\ \A r \in rows : db.links[r] = 1
                    /\ \A r1, r2 \in rows : r1.explanationId = r2.explanationId => r1 = r2

\* The run began with one explanation row per file of the old manifest, and
\* every file of the new manifest can be read.
LifecycleStart ==
    /\ script = "incremental"
    /\ DOMAIN db0.explanation = {generateExplanationId(f) : f \in FilesOf(oldMeta)}
    /\ \A f \in FilesOf(newMeta) : HEAD.files[f] # NoFile

\* C13. Explanation lifecycle: a run that began with the rows of the files of
\* the old manifest and read every file ends with exactly the rows of the files
\* of the new manifest; the rows of the added files and of the kept files that
\* changed hold the current text of the file.
ExplanationLifecycle ==
    (status \in {"done", "nothing"} /\ LifecycleStart) =>
        /\ DOMAIN db.explanation = {generateExplanationId(f) : f \in FilesOf(newMeta)}
        /\ \A f \in FilesOf(diff.added) \cup (FilesOf(diff.kept) \cap changedFiles) :
              db.explanation[generateExplanationId(f)] = HEAD.files[f]

\* A run deleted the row of a removed file and gave the row of a kept file the
\* new text of the file.
ExplanationLifecycleWitness ==
    /\ status = "done"
    /\ LifecycleStart
    /\ diff.removed # <<>>
    /\ \E f \in FilesOf(diff.kept) \cap changedFiles :
          /\ generateExplanationId(f) \in DOMAIN db0.explanation
          /\ db0.explanation[generateExplanationId(f)] # db.explanation[generateExplanationId(f)]

\* C14. Identity stability: every script derives the same id for the same
\* path: the row the full sync has just written for a file of meta.json is the
\* row the incremental runs keep for that file, so every explanation row of the
\* rebuilt store is a row of the incrementally synced store.
IdentityStable ==
    (script = "sync" /\ Issued /\ Last.op = "upsert") =>
        /\ generateExplanationIdXX(Last.file) \in DOMAIN db.explanation
        /\ DOMAIN db.explanation \subseteq DOMAIN db0.explanation

\* The place of a group in the order removed, added, questionsModified,
\* contentOnly.
GroupRank(group) ==
    CASE group = "removed" -> 1
      [] group = "added" -> 2
      [] group = "questionsModified" -> 3
      [] group = "contentOnly" -> 4

\* C15. Group order: the statements a run has issued are in the order of their
\* groups: those of the removed entries, then those of the added entries, then
\* those of the modified entries (upsert, links and unlinks), then those of the
\* content-only entries.
GroupOrder ==
    (script = "incremental" /\ Issued) =>
        \A i, j \in 1..(pc - 1) :
            (i < j /\ IsStoreOp(plan[i]) /\ IsStoreOp(plan[j])) =>
                GroupRank(plan[i].group) <= GroupRank(plan[j].group)

\* C16. Unlink before relink: among the statements a run has issued for a
\* modified entry, no link of a question of the new list precedes the unlink of
\* a question dropped from the entry.
UnlinkBeforeRelink ==
    (script = "incremental" /\ Issued) =>
        \A i, j \in 1..(pc - 1) :
            (/\ plan[i].group = "questionsModified" /\ plan[i].op = "link"
             /\ plan[j].group = "questionsModified" /\ plan[j].op = "unlink"
             /\ plan[i].file = plan[j].file) => j < i

\* C17. Links-modified entry: a statement issued for a modified entry leaves
\* the link of every question that is in the old and in the new list of the
\* entry as it is, whatever the link points at.
ModifiedKeepsCommonLinks ==
    [][(/\ script = "incremental" /\ status = "running" /\ pc <= Len(plan)
        /\ plan[pc].group = "questionsModified" /\ pc' = pc + 1) =>
          \A q \in Elems(MapGet(oldMeta, plan[pc].file).questions)
                    \cap Elems(MapGet(newMeta, plan[pc].file).questions) :
              q \in DOMAIN db.question => db'.question[q] = db.question[q]]_vars

\* The run, the first on HEAD and with no statement rejected, has just deleted
\* the row of a removed entry.
RemovedProcessed ==
    /\ script = "incremental"
    /\ Issued
    /\ Last.op = "delete"
    /\ attempt = 1
    /\ aborts = <<>>

\* The first of the statements of the entry whose row was just deleted.
RemovedStart ==
    CHOOSE n \in 1..(pc - 1) :
        /\ \A k \in n..(pc - 1) : plan[k].file = Last.file /\ plan[k].loop = "removed"
        /\ n = 1 \/ plan[n - 1].file # Last.file \/ plan[n - 1].loop # "removed"

\* The store before the first statement of that entry.
BeforeRemoved == ApplyPlan(db0, plan, HEAD.files, RemovedStart - 1)

\* C18. Removed entry: when the run has processed a removed entry, the row of
\* its derived id is absent (also when it was absent before), every question of
\* the entry whose link pointed at that id has a NULL link, every other link and
\* every other row is as it was before the entry.
RemovedEntryGone ==
    RemovedProcessed =>
        LET id == generateExplanationId(Last.file)
            entry == MapGet(oldMeta, Last.file)
            pre == BeforeRemoved
        IN  /\ ~MapHas(newMeta, Last.file)
            /\ DOMAIN db.explanation = DOMAIN pre.explanation \ {id}
            /\ \A i \in DOMAIN db.explanation : db.explanation[i] = pre.explanation[i]
            /\ DOMAIN db.question = DOMAIN pre.question
            /\ \A q \in DOMAIN db.question :
                  db.question[q] = IF q \in Elems(entry.questions) /\ pre.question[q] = id
                                   THEN NULL
                                   ELSE pre.question[q]

\* The row of a removed entry was deleted, a question of the entry that pointed
\* at it has a NULL link, and a question that points at another explanation
\* keeps its link.
RemovedEntryWitness ==
    /\ RemovedProcessed
    /\ generateExplanationId(Last.file) \in DOMAIN BeforeRemoved.explanation
    /\ \E q \in DOMAIN db.question :
          /\ BeforeRemoved.question[q] = generateExplanationId(Last.file)
          /\ db.question[q] = NULL
    /\ \E q \in DOMAIN db.question :
          db.question[q] \notin {NULL, generateExplanationId(Last.file)}

\* The row of a removed entry was absent before the delete.
RemovedAbsentWitness ==
    /\ RemovedProcessed
    /\ generateExplanationId(Last.file) \notin DOMAIN BeforeRemoved.explanation

\* The run issues no statement for the file.
NoStatementFor(file) == \A n \in 1..Len(plan) : plan[n].file # file

\* The entry of the new manifest is in the old one with the same set of
\* questions, and its file did not change.
SameQuestionSet(entry) ==
    /\ MapHas(oldMeta, entry.file)
    /\ Elems(MapGet(oldMeta, entry.file).questions) = Elems(entry.questions)
    /\ entry.file \notin changedFiles

\* The same with the sorted lists equal: the same questions, each as many times.
SameSortedQuestions(entry) ==
    /\ MapHas(oldMeta, entry.file)
    /\ Sorted(MapGet(oldMeta, entry.file).questions) = Sorted(entry.questions)
    /\ entry.file \notin changedFiles

\* C19. Unchanged entries are excluded: the run issues no statement for an
\* entry that is in the old and the new manifest with the same set of questions
\* and whose file did not change; when every entry is such, and none is removed,
\* the run issues no statement at all.
UnchangedExcluded ==
    Classified =>
        /\ \A i \in 1..Len(newMeta) :
              SameQuestionSet(newMeta[i]) => NoStatementFor(newMeta[i].file)
        /\ (/\ FilesOf(oldMeta) = FilesOf(newMeta)
            /\ \A i \in 1..Len(newMeta) : SameQuestionSet(newMeta[i]))
               => (status = "nothing" /\ plan = <<>>)

\* C19, for sorted lists. The run issues no statement for an entry that is in the old
\* and the new manifest with the same sorted list of questions (the same
\* questions, each as many times, in any order) and whose file did not change;
\* when every entry is such, and none is removed, the run issues no statement.
UnchangedSortedExcluded ==
    Classified =>
        /\ \A i \in 1..Len(newMeta) :
              SameSortedQuestions(newMeta[i]) => NoStatementFor(newMeta[i].file)
        /\ (/\ FilesOf(oldMeta) = FilesOf(newMeta)
            /\ \A i \in 1..Len(newMeta) : SameSortedQuestions(newMeta[i]))
               => (status = "nothing" /\ plan = <<>>)

\* An entry whose questions are written in another order is left out of a run
\* that has statements to issue for another entry.
UnchangedSortedWitness ==
    /\ Classified
    /\ status = "running"
    /\ plan # <<>>
    /\ \E i \in 1..Len(newMeta) :
          /\ SameSortedQuestions(newMeta[i])
          /\ MapGet(oldMeta, newMeta[i].file).questions # newMeta[i].questions

\* The store before the n-th statement of a run in which no statement rejects.
Before(n) == ApplyPlan(db0, plan, HEAD.files, n - 1)

\* What the statements of the run did in the store.
RowsDeleted ==
    {n \in 1..Len(plan) :
        /\ plan[n].op = "delete"
        /\ generateExplanationId(plan[n].file) \in DOMAIN Before(n).explanation}
RowsUpserted == {n \in 1..Len(plan) : plan[n].op = "upsert"}
LinksSet ==
    {n \in 1..Len(plan) : plan[n].op = "link" /\ plan[n].qid \in DOMAIN db.question}
LinksCleared ==
    {n \in 1..Len(plan) :
        /\ plan[n].op = "unlink"
        /\ plan[n].qid \in DOMAIN db.question
        /\ Before(n).question[plan[n].qid] = generateExplanationId(plan[n].file)}
QuestionsMissing ==
    {plan[n].qid : n \in {k \in 1..Len(plan) :
        plan[k].op \in {"link", "unlink"} /\ plan[k].qid \notin DOMAIN db.question}}

\* C20. Report accuracy: the summary of a completed run counts the rows
\* deleted, the rows inserted or updated, the links set and the links cleared
\* in the store, and lists exactly the questions that were not found.
ReportAccurate ==
    (script = "incremental" /\ status = "done" /\ attempt = 1 /\ aborts = <<>>) =>
        /\ summary[1].deleted = Cardinality(RowsDeleted)
        /\ summary[1].upserted = Cardinality(RowsUpserted)
        /\ summary[1].questionsLinked = Cardinality(LinksSet)
        /\ summary[1].questionsUnlinked = Cardinality(LinksCleared)
        /\ Elems(summary[1].questionsNotFound) = QuestionsMissing

\* C21. Referential integrity: in a history of complete incremental runs, at
\* every point during and after a run, the link of every question is NULL or
\* the id of an explanation row that exists: a row is upserted before a
\* question is linked to it, and the questions that point at a row are unlinked
\* before the row is deleted.
ReferentialIntegrity ==
    script = "incremental" =>
        \A q \in DOMAIN db.question :
            db.question[q] # NULL => db.question[q] \in DOMAIN db.explanation

\* A run has just deleted a row that a question pointed at when the run began,
\* while another question is linked to a row that stays.
ReferentialIntegrityWitness ==
    /\ script = "incremental"
    /\ Issued
    /\ Last.op = "delete"
    /\ \E q \in DOMAIN db0.question : db0.question[q] = generateExplanationId(Last.file)
    /\ \E q \in DOMAIN db.question : db.question[q] # NULL

\* The entries of the list that declare the question and whose file is read.
Declaring(entries, q) ==
    {i \in 1..Len(entries) :
        q \in Elems(entries[i].questions) /\ HEAD.files[entries[i].file] # NoFile}

LastOf(indices) == CHOOSE i \in indices : \A k \in indices : k <= i

DeclaringFound(entries, q) ==
    {i \in 1..Len(entries) :
        q \in Elems(entries[i].questions) /\ ~NotFound(HEAD.files, entries[i].file)}

====
